---- MODULE Spec2Model ----
(***************************************************************************)
(* SYSCON API of lpc8xx-hal: the one-time split of the raw peripheral into *)
(* a Handle and resource tokens, the Handle's read-modify-write operations *)
(* on SYSAHBCLKCTRL, PRESETCTRL, PDRUNCFG and STARTERP1, and the typestate *)
(* of the IRC/FRO-derived clock, for both chip variants (82x and 845).     *)
(*                                                                         *)
(* A register is the set of the names of its fields that read 1.  The      *)
(* field names are the ones the source uses on the register writers; the   *)
(* field accessors themselves (enable/disable, set_bit/clear_bit,          *)
(* enabled/disabled) set or clear that one field of the writer.            *)
(***************************************************************************)
EXTENDS Integers, Sequences, FiniteSets, TLC

VARIABLES chip,            \* cargo feature: "82x" or "845"
          syscon,          \* the SYSCON value: "Unsplit", "Split" or "Freed"
          handles,         \* number of Handle values in existence
          tokens,          \* resource -> number of live tokens
          derived_clock,   \* IrcDerivedClock/FroDerivedClock: "none", "Disabled", "Enabled"
          sysahbclkctrl,   \* clock-gate register
          presetctrl,      \* reset-control register
          pdruncfg,        \* power-down register
          starterp1,       \* wake-up-enable register
          hist,            \* the last two operations on the registers, newest first,
                           \* each with the registers as they were before it
          nops,            \* number of Handle operations so far
          config           \* the last UsartClock/I2cClock constructor call and its outcome

vars == <<chip, syscon, handles, tokens, derived_clock,
          sysahbclkctrl, presetctrl, pdruncfg, starterp1, hist, nops, config>>

\* Bound on the number of Handle operations in one behaviour.
MaxOps == 2

Range(s) == {s[i] : i \in 1..Len(s)}

Chips == {"82x", "845"}

------------------------------------------------------------------------------
\* Register writers: a field accessor followed by enable()/set_bit()/enabled()
\* sets the field, followed by disable()/clear_bit()/disabled() clears it.

set_bit(w, field) == w \cup {field}

clear_bit(w, field) == w \ {field}

RECURSIVE set_bits(_, _)
set_bits(w, fields) ==
    IF fields = <<>> THEN w
    ELSE set_bits(set_bit(w, Head(fields)), Tail(fields))

RECURSIVE clear_bits(_, _)
clear_bits(w, fields) ==
    IF fields = <<>> THEN w
    ELSE clear_bits(clear_bit(w, Head(fields)), Tail(fields))

------------------------------------------------------------------------------
\* impl_clock_control! instances and the 845 GPIO impl: the resource types
\* with the ClockControl capability and the fields each one writes.

ClockControl(c) ==
    {"ROM", "RAM0_1", "FLASH_CTRL", "FLASH", "I2C0", "GPIO", "SWM0", "SCT0",
     "WKT", "MRT0", "SPI0", "SPI1", "CRC", "USART0", "USART1", "USART2",
     "WWDT", "IOCON", "ACOMP", "I2C1", "I2C2", "I2C3", "ADC0", "MTB", "DMA0"}

clock_fields(c, P) ==
    CASE P = "ROM"        -> <<"rom">>
      [] P = "RAM0_1"     -> <<"ram0_1">>
      [] P = "FLASH_CTRL" -> IF c = "82x" THEN <<"flashreg">> ELSE <<"flash">>
      [] P = "FLASH"      -> <<"flash">>
      [] P = "I2C0"       -> <<"i2c0">>
      [] P = "GPIO"       -> IF c = "82x" THEN <<"gpio">> ELSE <<"gpio0", "gpio1">>
      [] P = "SWM0"       -> <<"swm">>
      [] P = "SCT0"       -> <<"sct">>
      [] P = "WKT"        -> <<"wkt">>
      [] P = "MRT0"       -> <<"mrt">>
      [] P = "SPI0"       -> <<"spi0">>
      [] P = "SPI1"       -> <<"spi1">>
      [] P = "CRC"        -> <<"crc">>
      [] P = "USART0"     -> <<"uart0">>
      [] P = "USART1"     -> <<"uart1">>
      [] P = "USART2"     -> <<"uart2">>
      [] P = "WWDT"       -> <<"wwdt">>
      [] P = "IOCON"      -> <<"iocon">>
      [] P = "ACOMP"      -> <<"acmp">>
      [] P = "I2C1"       -> <<"i2c1">>
      [] P = "I2C2"       -> <<"i2c2">>
      [] P = "I2C3"       -> <<"i2c3">>
      [] P = "ADC0"       -> <<"adc">>
      [] P = "MTB"        -> <<"mtb">>
      [] P = "DMA0"       -> <<"dma">>

\* ClockControl::enable_clock with a writer that ignores the bits read
\* (write instead of modify).
ClockControl_enable_clock_overwrite(c, P, w) == set_bits({}, clock_fields(c, P))

\* ClockControl::enable_clock that enables only the first field of a resource
\* (gpio0 without gpio1).
ClockControl_enable_clock_first(c, P, w) == set_bit(w, Head(clock_fields(c, P)))

ClockControl_enable_clock(c, P, w) == set_bits(w, clock_fields(c, P))

\* ClockControl::disable_clock that toggles the fields of the resource instead
\* of clearing them.
ClockControl_disable_clock_toggle(c, P, w) ==
    IF Range(clock_fields(c, P)) \subseteq w
    THEN clear_bits(w, clock_fields(c, P))
    ELSE set_bits(w, clock_fields(c, P))

ClockControl_disable_clock(c, P, w) == clear_bits(w, clock_fields(c, P))

------------------------------------------------------------------------------
\* impl_reset_control! instances, the 845 GPIO impl and the 82x UARTFRG impl.

ResetControl(c) ==
    {"SPI0", "SPI1", "USART0", "USART1", "USART2", "I2C0", "MRT0", "SCT0",
     "WKT", "FLASH_CTRL", "ACOMP", "I2C1", "I2C2", "I2C3", "ADC0", "DMA0",
     "GPIO"}
    \cup (IF c = "82x" THEN {"UARTFRG"} ELSE {})

reset_fields(c, P) ==
    CASE P = "SPI0"       -> <<"spi0_rst_n">>
      [] P = "SPI1"       -> <<"spi1_rst_n">>
      [] P = "USART0"     -> <<"uart0_rst_n">>
      [] P = "USART1"     -> <<"uart1_rst_n">>
      [] P = "USART2"     -> <<"uart2_rst_n">>
      [] P = "I2C0"       -> <<"i2c0_rst_n">>
      [] P = "MRT0"       -> <<"mrt_rst_n">>
      [] P = "SCT0"       -> <<"sct_rst_n">>
      [] P = "WKT"        -> <<"wkt_rst_n">>
      [] P = "FLASH_CTRL" -> <<"flash_rst_n">>
      [] P = "ACOMP"      -> <<"acmp_rst_n">>
      [] P = "I2C1"       -> <<"i2c1_rst_n">>
      [] P = "I2C2"       -> <<"i2c2_rst_n">>
      [] P = "I2C3"       -> <<"i2c3_rst_n">>
      [] P = "ADC0"       -> <<"adc_rst_n">>
      [] P = "DMA0"       -> <<"dma_rst_n">>
      [] P = "GPIO"       -> IF c = "82x" THEN <<"gpio_rst_n">>
                             ELSE <<"gpio0_rst_n", "gpio1_rst_n">>
      [] P = "UARTFRG"    -> <<"uartfrg_rst_n">>

\* ResetControl::assert_reset with the polarity of an active-high reset.
ResetControl_assert_reset_high(c, P, w) == set_bits(w, reset_fields(c, P))

ResetControl_assert_reset(c, P, w) == clear_bits(w, reset_fields(c, P))

\* ResetControl::clear_reset that writes the fields into an empty writer.
ResetControl_clear_reset_overwrite(c, P, w) == set_bits({}, reset_fields(c, P))

ResetControl_clear_reset(c, P, w) == set_bits(w, reset_fields(c, P))

------------------------------------------------------------------------------
\* impl_analog_block! instances of the common module and of the two chips.

Oscillator(c) == IF c = "82x" THEN "IRC" ELSE "FRO"

OutputBuffer(c) == IF c = "82x" THEN "IRCOUT" ELSE "FROOUT"

AnalogBlock(c) ==
    {"FLASH", "BOD", "ADC0", "SYSOSC", "WWDT", "SYSPLL", "ACOMP"}
    \cup {Oscillator(c), OutputBuffer(c)}

analog_field(c, P) ==
    CASE P = "FLASH"  -> "flash_pd"
      [] P = "BOD"    -> "bod_pd"
      [] P = "ADC0"   -> "adc_pd"
      [] P = "SYSOSC" -> "sysosc_pd"
      [] P = "WWDT"   -> "wdtosc_pd"
      [] P = "SYSPLL" -> "syspll_pd"
      [] P = "ACOMP"  -> "acmp"
      [] P = "IRCOUT" -> "ircout_pd"
      [] P = "IRC"    -> "irc_pd"
      [] P = "FRO"    -> "fro_pd"
      [] P = "FROOUT" -> "froout_pd"

\* AnalogBlock::power_up with the polarity of a power-enable bit.
AnalogBlock_power_up_high(c, P, w) == set_bit(w, analog_field(c, P))

AnalogBlock_power_up(c, P, w) == clear_bit(w, analog_field(c, P))

AnalogBlock_power_down(c, P, w) == set_bit(w, analog_field(c, P))

------------------------------------------------------------------------------
\* wakeup_interrupt! instances.

WakeUpInterrupt ==
    {"Spi0Wakeup", "Spi1Wakeup", "Usart0Wakeup", "Usart1Wakeup",
     "Usart2Wakeup", "I2c1Wakeup", "I2c0Wakeup", "WwdtWakeup", "BodWakeup",
     "WktWakeup", "I2c2Wakeup", "I2c3Wakeup"}

wakeup_field(I) ==
    CASE I = "Spi0Wakeup"   -> "spi0"
      [] I = "Spi1Wakeup"   -> "spi1"
      [] I = "Usart0Wakeup" -> "usart0"
      [] I = "Usart1Wakeup" -> "usart1"
      [] I = "Usart2Wakeup" -> "usart2"
      [] I = "I2c1Wakeup"   -> "i2c1"
      [] I = "I2c0Wakeup"   -> "i2c0"
      [] I = "WwdtWakeup"   -> "wwdt"
      [] I = "BodWakeup"    -> "bod"
      [] I = "WktWakeup"    -> "wkt"
      [] I = "I2c2Wakeup"   -> "i2c2"
      [] I = "I2c3Wakeup"   -> "i2c3"

\* WakeUpInterrupt::enable through write() instead of modify(): the bits read
\* are dropped.
WakeUpInterrupt_enable_overwrite(I, w) == set_bit({}, wakeup_field(I))

WakeUpInterrupt_enable(I, w) == set_bit(w, wakeup_field(I))

WakeUpInterrupt_disable(I, w) == clear_bit(w, wakeup_field(I))

------------------------------------------------------------------------------
\* The fields of each register that the HAL names, per chip.

SYSAHBCLKCTRL(c) == UNION {Range(clock_fields(c, P)) : P \in ClockControl(c)}

PRESETCTRL(c) == UNION {Range(reset_fields(c, P)) : P \in ResetControl(c)}

PDRUNCFG(c) == {analog_field(c, P) : P \in AnalogBlock(c)}

STARTERP1 == {wakeup_field(I) : I \in WakeUpInterrupt}

------------------------------------------------------------------------------
\* Resource tokens.  Parts carries the tokens made by split(); the tokens of
\* the raw peripherals belong to the caller from the start.

PartsTokens(c) ==
    {"BOD", "FLASH", "MTB", "RAM0_1", "ROM", "SYSOSC", "SYSPLL"}
    \cup {Oscillator(c), OutputBuffer(c)}
    \cup (IF c = "82x" THEN {"UARTFRG"} ELSE {})

Resources(c) ==
    ClockControl(c) \cup ResetControl(c) \cup AnalogBlock(c) \cup PartsTokens(c)

RawTokens(c) == Resources(c) \ PartsTokens(c)

------------------------------------------------------------------------------
\* State

Registers == [sysahbclkctrl |-> sysahbclkctrl, presetctrl |-> presetctrl,
              pdruncfg |-> pdruncfg, starterp1 |-> starterp1]

\* No clock configuration has been built.
NoConfig == [fn |-> "none"]

\* hist after an operation op on resource (or selector) res.
Record(op, res) ==
    <<[op |-> op, res |-> res, pre |-> Registers]>>
    \o (IF hist = <<>> THEN <<>> ELSE <<hist[1]>>)

\* The registers hold any value when the program starts; the model starts
\* them all clear or all set and reaches the values in between by operations.
InitRegisters ==
    \E all \in BOOLEAN :
        /\ sysahbclkctrl = IF all THEN SYSAHBCLKCTRL(chip) ELSE {}
        /\ presetctrl = IF all THEN PRESETCTRL(chip) ELSE {}
        /\ pdruncfg = IF all THEN PDRUNCFG(chip) ELSE {}
        /\ starterp1 = IF all THEN STARTERP1 ELSE {}

\* SYSCON::new: the raw peripheral wrapped, nothing split off yet.
Init ==
    /\ chip \in Chips
    /\ syscon = "Unsplit"
    /\ handles = 0
    /\ tokens = [r \in Resources(chip) |-> IF r \in RawTokens(chip) THEN 1 ELSE 0]
    /\ derived_clock = "none"
    /\ InitRegisters
    /\ hist = <<>>
    /\ nops = 0
    /\ config = NoConfig

------------------------------------------------------------------------------
\* SYSCON::split and SYSCON::free

\* split() taking &self: the SYSCON value stays usable.
split_by_ref ==
    /\ syscon = "Unsplit"
    /\ handles < 3
    /\ handles' = handles + 1
    /\ tokens' = [r \in DOMAIN tokens |->
                     IF r \in PartsTokens(chip) THEN tokens[r] + 1 ELSE tokens[r]]
    /\ derived_clock' = "Enabled"
    /\ UNCHANGED <<config, chip, syscon, sysahbclkctrl, presetctrl, pdruncfg, starterp1, hist, nops>>

split ==
    /\ syscon = "Unsplit"
    /\ syscon' = "Split"
    /\ handles' = handles + 1
    /\ tokens' = [r \in DOMAIN tokens |->
                     IF r \in PartsTokens(chip) THEN tokens[r] + 1 ELSE tokens[r]]
    /\ derived_clock' = "Enabled"
    /\ UNCHANGED <<config, chip, sysahbclkctrl, presetctrl, pdruncfg, starterp1, hist, nops>>

free ==
    /\ syscon = "Unsplit"
    /\ syscon' = "Freed"
    /\ UNCHANGED <<config, chip, handles, tokens, derived_clock,
                   sysahbclkctrl, presetctrl, pdruncfg, starterp1, hist, nops>>

------------------------------------------------------------------------------
\* impl Handle: each method is one modify() of one register, the closure
\* being the capability method of the token (or selector) passed in.

CanCall(P) == handles >= 1 /\ nops < MaxOps /\ tokens[P] >= 1

Called(op, res) ==
    /\ hist' = Record(op, res)
    /\ nops' = nops + 1
    /\ UNCHANGED <<config, chip, syscon, handles, tokens, derived_clock>>

Handle_enable_clock ==
    \E P \in ClockControl(chip) :
        /\ CanCall(P)
        /\ sysahbclkctrl' = ClockControl_enable_clock(chip, P, sysahbclkctrl)
        /\ UNCHANGED <<presetctrl, pdruncfg, starterp1>>
        /\ Called("enable_clock", P)

Handle_disable_clock ==
    \E P \in ClockControl(chip) :
        /\ CanCall(P)
        /\ sysahbclkctrl' = ClockControl_disable_clock(chip, P, sysahbclkctrl)
        /\ UNCHANGED <<presetctrl, pdruncfg, starterp1>>
        /\ Called("disable_clock", P)

Handle_assert_reset ==
    \E P \in ResetControl(chip) :
        /\ CanCall(P)
        /\ presetctrl' = ResetControl_assert_reset(chip, P, presetctrl)
        /\ UNCHANGED <<sysahbclkctrl, pdruncfg, starterp1>>
        /\ Called("assert_reset", P)

Handle_clear_reset ==
    \E P \in ResetControl(chip) :
        /\ CanCall(P)
        /\ presetctrl' = ResetControl_clear_reset(chip, P, presetctrl)
        /\ UNCHANGED <<sysahbclkctrl, pdruncfg, starterp1>>
        /\ Called("clear_reset", P)

Handle_power_up ==
    \E P \in AnalogBlock(chip) :
        /\ CanCall(P)
        /\ pdruncfg' = AnalogBlock_power_up(chip, P, pdruncfg)
        /\ UNCHANGED <<sysahbclkctrl, presetctrl, starterp1>>
        /\ Called("power_up", P)

\* power_down that also gates the clock of the block, in the same call.
Handle_power_down_and_gate ==
    \E P \in AnalogBlock(chip) :
        /\ CanCall(P)
        /\ pdruncfg' = AnalogBlock_power_down(chip, P, pdruncfg)
        /\ sysahbclkctrl' = IF P \in ClockControl(chip)
                            THEN ClockControl_disable_clock(chip, P, sysahbclkctrl)
                            ELSE {}
        /\ UNCHANGED <<presetctrl, starterp1>>
        /\ Called("power_down", P)

Handle_power_down ==
    \E P \in AnalogBlock(chip) :
        /\ CanCall(P)
        /\ pdruncfg' = AnalogBlock_power_down(chip, P, pdruncfg)
        /\ UNCHANGED <<sysahbclkctrl, presetctrl, starterp1>>
        /\ Called("power_down", P)

Handle_enable_interrupt_wakeup ==
    \E I \in WakeUpInterrupt :
        /\ handles >= 1 /\ nops < MaxOps
        /\ starterp1' = WakeUpInterrupt_enable(I, starterp1)
        /\ UNCHANGED <<sysahbclkctrl, presetctrl, pdruncfg>>
        /\ Called("enable_interrupt_wakeup", I)

Handle_disable_interrupt_wakeup ==
    \E I \in WakeUpInterrupt :
        /\ handles >= 1 /\ nops < MaxOps
        /\ starterp1' = WakeUpInterrupt_disable(I, starterp1)
        /\ UNCHANGED <<sysahbclkctrl, presetctrl, pdruncfg>>
        /\ Called("disable_interrupt_wakeup", I)

------------------------------------------------------------------------------
\* IrcDerivedClock<Disabled>::enable / FroDerivedClock<Disabled>::enable

\* enable() borrowing the clock and the two tokens instead of consuming them.
DerivedClock_enable_by_ref ==
    /\ derived_clock = "Disabled"
    /\ handles >= 1
    /\ tokens[Oscillator(chip)] >= 1 /\ tokens[OutputBuffer(chip)] >= 1
    /\ pdruncfg' = AnalogBlock_power_up(chip, OutputBuffer(chip),
                        AnalogBlock_power_up(chip, Oscillator(chip), pdruncfg))
    /\ hist' = Record("enable", "DerivedClock")
    /\ UNCHANGED <<config, chip, syscon, handles, tokens, derived_clock,
                   sysahbclkctrl, presetctrl, starterp1, nops>>

DerivedClock_enable ==
    /\ derived_clock = "Disabled"
    /\ handles >= 1
    /\ tokens[Oscillator(chip)] >= 1 /\ tokens[OutputBuffer(chip)] >= 1
    /\ pdruncfg' = AnalogBlock_power_up(chip, OutputBuffer(chip),
                        AnalogBlock_power_up(chip, Oscillator(chip), pdruncfg))
    /\ tokens' = [tokens EXCEPT ![Oscillator(chip)] = @ - 1,
                                ![OutputBuffer(chip)] = @ - 1]
    /\ derived_clock' = "Enabled"
    /\ hist' = Record("enable", "DerivedClock")
    /\ UNCHANGED <<config, chip, syscon, handles, sysahbclkctrl, presetctrl, starterp1, nops>>

\* clock::Frequency::hz that reports no frequency for a clock that is not
\* running.
hz_when_enabled(state) == IF state = "Enabled" THEN 750000 ELSE 0

\* impl<State> clock::Frequency for IrcDerivedClock<State> / FroDerivedClock<State>
hz(state) == 750000

------------------------------------------------------------------------------
\* Specifications

Next ==
    \/ split
    \/ free
    \/ Handle_enable_clock
    \/ Handle_disable_clock
    \/ Handle_assert_reset
    \/ Handle_clear_reset
    \/ Handle_power_up
    \/ Handle_power_down
    \/ Handle_enable_interrupt_wakeup
    \/ Handle_disable_interrupt_wakeup

Spec == Init /\ [][Next]_vars

\* The derived clock's typestate.  enable() takes a Disabled instance; the
\* sources construct the clock only as Enabled (in split), so the instance is
\* an input here: the state is the one after split() with the clock in either
\* state.
InitTypestate ==
    /\ chip \in Chips
    /\ syscon = "Split"
    /\ handles = 1
    /\ tokens = [r \in Resources(chip) |-> 1]
    /\ derived_clock \in {"Disabled", "Enabled"}
    /\ InitRegisters
    /\ hist = <<>>
    /\ nops = 0
    /\ config = NoConfig

NextTypestate ==
    \/ DerivedClock_enable
    \/ Handle_power_up
    \/ Handle_power_down

SpecTypestate == InitTypestate /\ [][NextTypestate]_vars

\* The behaviours in which the Handle is used on one register only.

NextClockGate ==
    \/ split
    \/ Handle_enable_clock
    \/ Handle_disable_clock

SpecClockGate == Init /\ [][NextClockGate]_vars

NextReset ==
    \/ split
    \/ Handle_assert_reset
    \/ Handle_clear_reset

SpecReset == Init /\ [][NextReset]_vars

NextPower ==
    \/ split
    \/ Handle_power_up
    \/ Handle_power_down

SpecPower == Init /\ [][NextPower]_vars

NextWakeup ==
    \/ split
    \/ Handle_enable_interrupt_wakeup
    \/ Handle_disable_interrupt_wakeup

SpecWakeup == Init /\ [][NextWakeup]_vars

TypeOK ==
    /\ chip \in Chips
    /\ syscon \in {"Unsplit", "Split", "Freed"}
    /\ handles \in Nat
    /\ \A r \in DOMAIN tokens : tokens[r] \in Nat
    /\ derived_clock \in {"none", "Disabled", "Enabled"}
    /\ sysahbclkctrl \subseteq SYSAHBCLKCTRL(chip)
    /\ presetctrl \subseteq PRESETCTRL(chip)
    /\ pdruncfg \subseteq PDRUNCFG(chip)
    /\ starterp1 \subseteq STARTERP1
    /\ Len(hist) <= 2
    /\ nops \in 0..MaxOps
    /\ config.fn \in {"none", "UsartClock::new", "UsartClock::new_with_baudrate",
                      "I2cClock::new", "I2cClock::new_400khz"}

------------------------------------------------------------------------------
\* Clock configurations of the 845 (UsartClock, I2cClock).
\*
\* A constructor either panics or returns the stored fields.  Arithmetic on
\* u8/u32 that leaves the type panics when the build has overflow checks (debug
\* profile) and wraps when it has none (release profile): `checks` is the
\* build's choice.

Panic == [panic |-> TRUE]

U8 == 0..255

\* psc and divval are u16; the constructors only copy them.
U16Samples == {0, 5, 65535}

\* Baud rates tried.  All are below 2^31 / (20 * 16), so that baudrate * 20,
\* calc * i and baudrate * osrval are the exact products and none of them
\* wraps in u32.
BaudRates ==
    {0, 1, 2, 36, 37, 110, 300, 600, 1200, 2400, 4800, 9600, 14400, 19200,
     28800, 37499, 37500, 38400, 57600, 74999, 75000, 76800, 115200, 119999,
     120000, 128000, 230400, 250000, 460800, 500000, 921600, 1000000,
     2000000, 2400000, 2400001, 3000000, 6000000, 6710886}

\* UsartClock::new with the assertion made on the value passed in instead of
\* the decremented one.
UsartClock_new_assert_raw(psc, osrval, checks) ==
    IF ~(osrval > 3 /\ osrval < 16) THEN Panic
    ELSE [panic |-> FALSE, psc |-> psc, osrval |-> osrval - 1]

UsartClock_new(psc, osrval, checks) ==
    IF checks /\ osrval < 1 THEN Panic
    ELSE LET decremented == (osrval - 1) % 256
         IN  IF ~(decremented > 3 /\ decremented < 16) THEN Panic
             ELSE [panic |-> FALSE, psc |-> psc, osrval |-> decremented]

\* The loop of new_with_baudrate: i runs from 16 down to 5 and every i with
\* calc * i < 12_000_000 is assigned to osrval.
RECURSIVE osrval_loop(_, _, _)
osrval_loop(calc, i, osrval) ==
    IF i < 5 THEN osrval
    ELSE osrval_loop(calc, i - 1, IF calc * i < 12000000 THEN i ELSE osrval)

UsartClock_new_with_baudrate(baudrate, checks) ==
    LET calc == baudrate * 20
        osrval == osrval_loop(calc, 16, 5)
    IN  IF baudrate * osrval = 0 THEN Panic
        ELSE LET quotient == 12000000 \div (baudrate * osrval)
             IN  IF checks /\ quotient < 1 THEN Panic
                 ELSE [panic |-> FALSE,
                       psc |-> (quotient - 1) % 65536,
                       osrval |-> osrval - 1]

\* I2cClock::new asserting mstsclhigh twice and mstscllow never.
I2cClock_new_assert_high_twice(divval, mstsclhigh, mstscllow, checks) ==
    IF ~(mstsclhigh > 1 /\ mstsclhigh < 10) THEN Panic
    ELSE IF checks /\ mstscllow < 2 THEN Panic
    ELSE [panic |-> FALSE, divval |-> divval,
          mstsclhigh |-> mstsclhigh - 2, mstscllow |-> (mstscllow - 2) % 256]

I2cClock_new(divval, mstsclhigh, mstscllow, checks) ==
    IF ~(mstsclhigh > 1 /\ mstsclhigh < 10) THEN Panic
    ELSE IF ~(mstscllow > 1 /\ mstscllow < 10) THEN Panic
    ELSE [panic |-> FALSE, divval |-> divval,
          mstsclhigh |-> mstsclhigh - 2, mstscllow |-> mstscllow - 2]

\* I2cClock::new_400khz storing the raw SCL counts.
I2cClock_new_400khz_raw ==
    [panic |-> FALSE, divval |-> 5, mstsclhigh |-> 2, mstscllow |-> 3]

I2cClock_new_400khz ==
    [panic |-> FALSE, divval |-> 5, mstsclhigh |-> 0, mstscllow |-> 1]

SysconUntouched ==
    UNCHANGED <<chip, syscon, handles, tokens, derived_clock,
                sysahbclkctrl, presetctrl, pdruncfg, starterp1, hist, nops>>

Call_UsartClock_new ==
    /\ config = NoConfig
    /\ \E psc \in U16Samples, osrval \in U8, checks \in BOOLEAN :
        /\ config' = [fn |-> "UsartClock::new", psc |-> psc, osrval |-> osrval,
                      checks |-> checks,
                      out |-> UsartClock_new(psc, osrval, checks)]
        /\ SysconUntouched

Call_UsartClock_new_with_baudrate ==
    /\ config = NoConfig
    /\ \E baudrate \in BaudRates, checks \in BOOLEAN :
        /\ config' = [fn |-> "UsartClock::new_with_baudrate", baudrate |-> baudrate,
                      checks |-> checks,
                      out |-> UsartClock_new_with_baudrate(baudrate, checks)]
        /\ SysconUntouched

Call_I2cClock_new ==
    /\ config = NoConfig
    /\ \E divval \in U16Samples, mstsclhigh \in U8, mstscllow \in U8, checks \in BOOLEAN :
        /\ config' = [fn |-> "I2cClock::new", divval |-> divval,
                      mstsclhigh |-> mstsclhigh, mstscllow |-> mstscllow,
                      checks |-> checks,
                      out |-> I2cClock_new(divval, mstsclhigh, mstscllow, checks)]
        /\ SysconUntouched

Call_I2cClock_new_400khz ==
    /\ config = NoConfig
    /\ config' = [fn |-> "I2cClock::new_400khz", out |-> I2cClock_new_400khz]
    /\ SysconUntouched

\* The constructors are associated functions of the 845 HAL and take no
\* SYSCON state; a behaviour is one call, on the 845, before anything is split.
InitClockSource ==
    /\ Init
    /\ chip = "845"

NextClockSource ==
    \/ Call_UsartClock_new
    \/ Call_UsartClock_new_with_baudrate
    \/ Call_I2cClock_new
    \/ Call_I2cClock_new_400khz

SpecClockSource == InitClockSource /\ [][NextClockSource]_vars

------------------------------------------------------------------------------
\* Properties

\* The last operation and the one before it.
Last == hist[1]

Before == hist[2]

Did(op) == hist # <<>> /\ Last.op = op

\* Two operations in a row on the same resource, first op1 then op2.
DidBoth(op1, op2) ==
    /\ Len(hist) = 2
    /\ Before.op = op1 /\ Last.op = op2
    /\ Before.res = Last.res

ClockMask(P) == Range(clock_fields(chip, P))

ResetMask(P) == Range(reset_fields(chip, P))

PowerMask(P) == {analog_field(chip, P)}

\* C1: split() is the only way out of Unsplit that makes a Handle; there is
\* at most one Handle and at most one live token per resource, exactly one of
\* each once split, none after free(); Split and Freed are terminal.
C1_SplitAtMostOnce ==
    /\ [](/\ handles <= 1
          /\ \A r \in DOMAIN tokens : tokens[r] <= 1
          /\ (handles = 1) <=> (syscon = "Split")
          /\ syscon = "Split" => \A r \in PartsTokens(chip) : tokens[r] = 1
          /\ syscon # "Split" => \A r \in PartsTokens(chip) : tokens[r] = 0)
    /\ [][/\ syscon # "Unsplit" => syscon' = syscon /\ handles' = handles
          /\ handles' # handles => syscon = "Unsplit" /\ syscon' = "Split"]_vars

C1_Witness == syscon = "Split" /\ handles = 1 /\ nops = MaxOps

\* C2: once the tokens exist, in each of the clock-gate, reset-control and
\* power-down registers the masks of two distinct resource types are disjoint,
\* so that no token changes a bit of another resource.
C2_DisjointMasks ==
    syscon = "Split" =>
    /\ \A P, Q \in ClockControl(chip) : P # Q => ClockMask(P) \cap ClockMask(Q) = {}
    /\ \A P, Q \in ResetControl(chip) : P # Q => ResetMask(P) \cap ResetMask(Q) = {}
    /\ \A P, Q \in AnalogBlock(chip) : P # Q => PowerMask(P) \cap PowerMask(Q) = {}

\* C3: after enable_clock(R) all of R's bits are set in the clock-gate
\* register and every other bit is as it was before the call.
C3_EnableClockFrame ==
    Did("enable_clock") =>
        /\ ClockMask(Last.res) \subseteq sysahbclkctrl
        /\ sysahbclkctrl \ ClockMask(Last.res)
               = Last.pre.sysahbclkctrl \ ClockMask(Last.res)

C3_Witness ==
    /\ Did("enable_clock")
    /\ ClockMask(Last.res) \cap Last.pre.sysahbclkctrl = {}
    /\ Last.pre.sysahbclkctrl # {}
    /\ Cardinality(ClockMask(Last.res)) = 2

\* C4: disable_clock(R) clears exactly the bits enable_clock(R) sets and no
\* others; after two calls in a row on R the register is the one the second
\* call alone gives (so each is idempotent and the last call decides).
C4_DisableInvertsEnable ==
    /\ Did("disable_clock") =>
           sysahbclkctrl = Last.pre.sysahbclkctrl \ ClockMask(Last.res)
    /\ Did("enable_clock") =>
           sysahbclkctrl = Last.pre.sysahbclkctrl \cup ClockMask(Last.res)
    /\ \A op1, op2 \in {"enable_clock", "disable_clock"} :
           DidBoth(op1, op2) =>
              /\ op2 = "enable_clock" =>
                     sysahbclkctrl = Before.pre.sysahbclkctrl \cup ClockMask(Last.res)
              /\ op2 = "disable_clock" =>
                     sysahbclkctrl = Before.pre.sysahbclkctrl \ ClockMask(Last.res)
              /\ op1 = op2 => sysahbclkctrl = Last.pre.sysahbclkctrl

C4_Witness ==
    /\ DidBoth("disable_clock", "disable_clock")
    /\ ClockMask(Last.res) \subseteq Before.pre.sysahbclkctrl
    /\ sysahbclkctrl # {}

\* C5: assert_reset(R) clears R's bits of the reset-control register,
\* clear_reset(R) sets them, and neither changes a bit outside R's mask.
C5_ResetPolarity ==
    /\ Did("assert_reset") =>
           /\ ResetMask(Last.res) \cap presetctrl = {}
           /\ presetctrl \ ResetMask(Last.res) = Last.pre.presetctrl \ ResetMask(Last.res)
    /\ Did("clear_reset") =>
           /\ ResetMask(Last.res) \subseteq presetctrl
           /\ presetctrl \ ResetMask(Last.res) = Last.pre.presetctrl \ ResetMask(Last.res)

C5_Witness ==
    /\ Did("assert_reset")
    /\ ResetMask(Last.res) \subseteq Last.pre.presetctrl
    /\ presetctrl # {}

\* C6: power_up(R) clears R's bit of the power-down register, power_down(R)
\* sets it, and neither changes another bit.
C6_PowerPolarity ==
    /\ Did("power_up") =>
           /\ analog_field(chip, Last.res) \notin pdruncfg
           /\ pdruncfg \ PowerMask(Last.res) = Last.pre.pdruncfg \ PowerMask(Last.res)
    /\ Did("power_down") =>
           /\ analog_field(chip, Last.res) \in pdruncfg
           /\ pdruncfg \ PowerMask(Last.res) = Last.pre.pdruncfg \ PowerMask(Last.res)

C6_Witness ==
    /\ Did("power_up")
    /\ analog_field(chip, Last.res) \in Last.pre.pdruncfg
    /\ pdruncfg # {}

\* C7: enable_interrupt_wakeup<I> sets and disable_interrupt_wakeup<I> clears
\* I's bit of the wake-up-enable register, the bits of all other selectors
\* keep their value, and distinct selectors have distinct bits.
C7_WakeupFrame ==
    /\ \A I, J \in WakeUpInterrupt : I # J => wakeup_field(I) # wakeup_field(J)
    /\ Did("enable_interrupt_wakeup") =>
           /\ wakeup_field(Last.res) \in starterp1
           /\ \A J \in WakeUpInterrupt \ {Last.res} :
                  wakeup_field(J) \in starterp1 <=> wakeup_field(J) \in Last.pre.starterp1
    /\ Did("disable_interrupt_wakeup") =>
           /\ wakeup_field(Last.res) \notin starterp1
           /\ \A J \in WakeUpInterrupt \ {Last.res} :
                  wakeup_field(J) \in starterp1 <=> wakeup_field(J) \in Last.pre.starterp1

C7_Witness ==
    /\ Did("enable_interrupt_wakeup")
    /\ Last.res = "I2c1Wakeup"
    /\ Last.pre.starterp1 = {"i2c0"}
    /\ starterp1 = {"i2c0", "i2c1"}

\* C8 as stated: assert_reset(R) then clear_reset(R), nothing in between,
\* leaves the reset-control register as it was before the two calls,
\* whatever R's bit was.
C8_RoundTripRestoresAlways ==
    DidBoth("assert_reset", "clear_reset") => presetctrl = Before.pre.presetctrl

\* C8 amended: after assert_reset(R) then clear_reset(R), nothing in between,
\* R's bits are set and every other bit is as it was before the two calls;
\* the register is back to its value before the two calls exactly when R's
\* bits were set then.
C8_RoundTripRestoresReleased ==
    DidBoth("assert_reset", "clear_reset") =>
        /\ ResetMask(Last.res) \subseteq presetctrl
        /\ presetctrl \ ResetMask(Last.res)
               = Before.pre.presetctrl \ ResetMask(Last.res)
        /\ (presetctrl = Before.pre.presetctrl)
               <=> (ResetMask(Last.res) \subseteq Before.pre.presetctrl)

C8_Witness ==
    /\ DidBoth("assert_reset", "clear_reset")
    /\ ResetMask(Last.res) \subseteq Before.pre.presetctrl
    /\ Cardinality(ResetMask(Last.res)) = 2

\* C9: the derived clock only changes from Disabled to Enabled and only by
\* enable(); enable() acts on a Disabled clock only, takes the oscillator and
\* output-buffer tokens with it, leaves both power-down bits clear and the
\* other bits of the power-down register as they were, and is never applied
\* twice.
C9_EnableOneWay ==
    /\ [](Did("enable") =>
            /\ derived_clock = "Enabled"
            /\ tokens[Oscillator(chip)] = 0 /\ tokens[OutputBuffer(chip)] = 0
            /\ pdruncfg = Last.pre.pdruncfg
                  \ (PowerMask(Oscillator(chip)) \cup PowerMask(OutputBuffer(chip))))
    /\ [](Len(hist) = 2 => ~(Last.op = "enable" /\ Before.op = "enable"))
    /\ [][/\ derived_clock = "Enabled" => derived_clock' = "Enabled"
          /\ derived_clock' # derived_clock =>
                 derived_clock = "Disabled" /\ derived_clock' = "Enabled"
                 /\ hist'[1].op = "enable"
          /\ (hist' # hist /\ hist'[1].op = "enable") =>
                 /\ derived_clock = "Disabled"
                 /\ tokens[Oscillator(chip)] = 1 /\ tokens[OutputBuffer(chip)] = 1]_vars

C9_Witness ==
    /\ Did("enable")
    /\ derived_clock = "Enabled"
    /\ PowerMask(Oscillator(chip)) \cup PowerMask(OutputBuffer(chip))
           \subseteq Last.pre.pdruncfg
    /\ pdruncfg # {}
    /\ Len(hist) = 2

\* C10: while an Enabled derived clock exists no caller holds the oscillator
\* or the output-buffer token, and both blocks are powered (their power-down
\* bits are clear).
C10_EnabledClockOwnsPower ==
    (syscon = "Split" /\ derived_clock = "Enabled") =>
        /\ tokens[Oscillator(chip)] = 0 /\ tokens[OutputBuffer(chip)] = 0
        /\ analog_field(chip, Oscillator(chip)) \notin pdruncfg
        /\ analog_field(chip, OutputBuffer(chip)) \notin pdruncfg

\* C11: hz() of the derived clock is 750_000 in the Disabled and in the
\* Enabled state, and no step (enable() or a Handle operation) changes it.
C11_FrequencyFixed ==
    /\ [](derived_clock # "none" => hz(derived_clock) = 750000)
    /\ [][derived_clock # "none" => hz(derived_clock') = hz(derived_clock)]_vars

C11_Witness ==
    /\ Did("enable")
    /\ Len(hist) = 1
    /\ derived_clock = "Enabled"
    /\ hz(derived_clock) = 750000

Built(fn) == config.fn = fn

\* The oversampling ratios r in [5,16] with 20 * B * r < 12_000_000.
Ratios(B) == {r \in 5..16 : 20 * B * r < 12000000}

Largest(S) == CHOOSE r \in S : \A q \in S : q <= r

\* C12: new_with_baudrate(B) stores osrval = r - 1 and
\* psc = floor(12_000_000 / (B * r)) - 1 for the largest r in [5,16] with
\* 20 * B * r < 12_000_000.
C12_LargestRatio ==
    (Built("UsartClock::new_with_baudrate")
        /\ config.baudrate > 0 /\ Ratios(config.baudrate) # {}) =>
        LET r == Largest(Ratios(config.baudrate))
        IN  /\ ~config.out.panic
            /\ config.out.osrval = r - 1
            /\ config.out.psc = (12000000 \div (config.baudrate * r)) - 1

\* C13: for every non-zero B, new_with_baudrate(B) returns, and the psc it
\* stores is floor(12_000_000 / (B * r)) - 1 for the ratio r it chose, a
\* value in 0..65535 (nothing wrapped, nothing truncated).
C13_DivisorFits ==
    (Built("UsartClock::new_with_baudrate") /\ config.baudrate > 0) =>
        /\ ~config.out.panic
        /\ LET r == config.out.osrval + 1
               divisor == (12000000 \div (config.baudrate * r)) - 1
           IN  /\ divisor \in 0..65535
               /\ config.out.psc = divisor

\* C14: UsartClock::new returns exactly when 5 <= osrval <= 16, then with
\* osrval - 1 and the psc passed in; for every other osrval it panics.
C14_UsartOsrvalRange ==
    Built("UsartClock::new") =>
        /\ config.out.panic <=> ~(config.osrval \in 5..16)
        /\ ~config.out.panic =>
               config.out = [panic |-> FALSE, psc |-> config.psc,
                             osrval |-> config.osrval - 1]

C14_Witness ==
    /\ Built("UsartClock::new")
    /\ config.osrval = 16 /\ config.psc = 65535
    /\ ~config.out.panic /\ config.out.osrval = 15

\* C15: I2cClock::new returns exactly when mstsclhigh and mstscllow are both
\* in 2..9, then with each minus 2 (so in 0..7) and the divval passed in; for
\* every other input it panics, in either build.
C15_I2cSclRange ==
    Built("I2cClock::new") =>
        /\ config.out.panic <=>
               ~(config.mstsclhigh \in 2..9 /\ config.mstscllow \in 2..9)
        /\ ~config.out.panic =>
               /\ config.out = [panic |-> FALSE, divval |-> config.divval,
                                mstsclhigh |-> config.mstsclhigh - 2,
                                mstscllow |-> config.mstscllow - 2]
               /\ config.out.mstsclhigh \in 0..7
               /\ config.out.mstscllow \in 0..7

C15_Witness ==
    /\ Built("I2cClock::new")
    /\ config.mstsclhigh = 9 /\ config.mstscllow = 2
    /\ ~config.out.panic
    /\ config.out.mstsclhigh = 7 /\ config.out.mstscllow = 0

\* C16: I2cClock::new_400khz() is divval 5, stored mstsclhigh 0 and stored
\* mstscllow 1, which is what I2cClock::new(clock, 5, 2, 3) stores.
C16_Preset400khz ==
    Built("I2cClock::new_400khz") =>
        /\ config.out.divval = 5
        /\ config.out.mstsclhigh = 0
        /\ config.out.mstscllow = 1
        /\ \A checks \in BOOLEAN : config.out = I2cClock_new(5, 2, 3, checks)

C16_Witness ==
    /\ Built("I2cClock::new_400khz")
    /\ ~config.out.panic
    /\ config.out.divval = 5

\* C17: on the 845 the two clock-gate bits of GPIO (gpio0, gpio1) are equal in
\* every state and so are its two reset bits, and the mask of every resource
\* holds both bits of a pair or neither.
C17_GpioBanksTogether ==
    chip = "845" =>
        /\ ("gpio0" \in sysahbclkctrl) <=> ("gpio1" \in sysahbclkctrl)
        /\ ("gpio0_rst_n" \in presetctrl) <=> ("gpio1_rst_n" \in presetctrl)
        /\ \A P \in ClockControl(chip) :
               ClockMask(P) \cap {"gpio0", "gpio1"} \in {{}, {"gpio0", "gpio1"}}
        /\ \A P \in ResetControl(chip) :
               ResetMask(P) \cap {"gpio0_rst_n", "gpio1_rst_n"}
                   \in {{}, {"gpio0_rst_n", "gpio1_rst_n"}}

C17_Witness ==
    /\ chip = "845"
    /\ Did("enable_clock") /\ Last.res = "GPIO"
    /\ Last.pre.sysahbclkctrl \cap {"gpio0", "gpio1"} = {}
    /\ {"gpio0", "gpio1"} \subseteq sysahbclkctrl
    /\ Len(hist) = 2 /\ Before.op = "assert_reset" /\ Before.res = "GPIO"

\* The register a Handle method modifies.
RegisterOf(op) ==
    CASE op \in {"enable_clock", "disable_clock"} -> "sysahbclkctrl"
      [] op \in {"assert_reset", "clear_reset"} -> "presetctrl"
      [] op \in {"power_up", "power_down"} -> "pdruncfg"
      [] op \in {"enable_interrupt_wakeup", "disable_interrupt_wakeup"} -> "starterp1"

\* The registers r after the Handle method op with token (or selector) res.
Apply(op, res, r) ==
    CASE op = "enable_clock" ->
           [r EXCEPT !.sysahbclkctrl = ClockControl_enable_clock(chip, res, @)]
      [] op = "disable_clock" ->
           [r EXCEPT !.sysahbclkctrl = ClockControl_disable_clock(chip, res, @)]
      [] op = "assert_reset" ->
           [r EXCEPT !.presetctrl = ResetControl_assert_reset(chip, res, @)]
      [] op = "clear_reset" ->
           [r EXCEPT !.presetctrl = ResetControl_clear_reset(chip, res, @)]
      [] op = "power_up" ->
           [r EXCEPT !.pdruncfg = AnalogBlock_power_up(chip, res, @)]
      [] op = "power_down" ->
           [r EXCEPT !.pdruncfg = AnalogBlock_power_down(chip, res, @)]
      [] op = "enable_interrupt_wakeup" ->
           [r EXCEPT !.starterp1 = WakeUpInterrupt_enable(res, @)]
      [] op = "disable_interrupt_wakeup" ->
           [r EXCEPT !.starterp1 = WakeUpInterrupt_disable(res, @)]

\* C18: a Handle operation leaves the three registers it is not about
\* unchanged, and two operations in a row on different registers give the
\* same registers when made in the other order.
C18_OneRegisterPerOperation ==
    /\ hist # <<>> =>
           \A reg \in {"sysahbclkctrl", "presetctrl", "pdruncfg", "starterp1"} :
               reg # RegisterOf(Last.op) => Registers[reg] = Last.pre[reg]
    /\ (Len(hist) = 2 /\ RegisterOf(Before.op) # RegisterOf(Last.op)) =>
           Apply(Before.op, Before.res,
                 Apply(Last.op, Last.res, Before.pre)) = Registers

C18_Witness ==
    /\ Len(hist) = 2
    /\ Before.op = "power_down" /\ Last.op = "enable_interrupt_wakeup"
    /\ Before.pre.pdruncfg # pdruncfg
    /\ Last.pre.starterp1 # starterp1
    /\ sysahbclkctrl = Before.pre.sysahbclkctrl

====
